---- MODULE Spec2Model ----
(***************************************************************************)
(* Batch conversion drivers of the web-scraping repository:                *)
(*   mp4  : video -> MP4   (convertToMp4,  main)                           *)
(*   webm : video -> WebM  (convertToWebM, main)                           *)
(*   webp : image -> WebP  (convertToWebP, main)                           *)
(* Strings are modelled as sequences of one-character strings, so that     *)
(* extname, basename, join, String.replace and toLowerCase are computed    *)
(* character by character as the runtime computes them.                    *)
(***************************************************************************)
EXTENDS Integers, Sequences, FiniteSets, TLC

(***************************************************************************)
(* Bounds of the model.                                                    *)
(***************************************************************************)
\* largest number of entries the argument parser may push on inputFiles
MaxFiles == 2
\* the most URLs of one run of the screenshot tool
MaxUrls == 2
\* the most pixels a page is taller than the viewport
MaxScroll == 2
\* the most milliseconds a timer fires late
MaxSlack == 1

(***************************************************************************)
(* String primitives of the JavaScript runtime.                            *)
(***************************************************************************)
UpperChars == <<"A","B","C","D","E","F","G","H","I","J","K","L","M",
                "N","O","P","Q","R","S","T","U","V","W","X","Y","Z">>
LowerChars == <<"a","b","c","d","e","f","g","h","i","j","k","l","m",
                "n","o","p","q","r","s","t","u","v","w","x","y","z">>
DigitChars == <<"0","1","2","3","4","5","6","7","8","9">>

EmptyStr == <<>>

ToLowerChar(c) ==
    IF \E k \in 1..26 : UpperChars[k] = c
    THEN LowerChars[CHOOSE k \in 1..26 : UpperChars[k] = c]
    ELSE c

\* String.prototype.toLowerCase
toLowerCase(s) == [k \in 1..Len(s) |-> ToLowerChar(s[k])]

\* String.prototype.startsWith
startsWith(s, prefix) ==
    /\ Len(prefix) <= Len(s)
    /\ SubSeq(s, 1, Len(prefix)) = prefix

\* String.prototype.endsWith
endsWith(s, suffix) ==
    /\ Len(suffix) <= Len(s)
    /\ SubSeq(s, Len(s) - Len(suffix) + 1, Len(s)) = suffix

\* positions at which pat occurs in s
Occurrences(s, pat) ==
    { k \in 1..(Len(s) - Len(pat) + 1) : SubSeq(s, k, k + Len(pat) - 1) = pat }

Min(S) == CHOOSE x \in S : \A y \in S : x <= y
Max(S) == CHOOSE x \in S : \A y \in S : x >= y

\* String.prototype.replace with a string pattern: only the FIRST occurrence
\* of pat is replaced; s is returned unchanged when pat does not occur.
StrReplaceAt(s, pat, rep, k) ==
    SubSeq(s, 1, k - 1) \o rep \o SubSeq(s, k + Len(pat), Len(s))

StrReplace(s, pat, rep) ==
    IF Occurrences(s, pat) = {}
    THEN s
    ELSE StrReplaceAt(s, pat, rep, Min(Occurrences(s, pat)))

(***************************************************************************)
(* path.posix of the runtime: extname, basename, join.                     *)
(***************************************************************************)
Slash == "/"
Dot == "."

\* the path without its trailing slashes
RECURSIVE StripTrailingSlashes(_)
StripTrailingSlashes(p) ==
    IF Len(p) > 0 /\ p[Len(p)] = Slash
    THEN StripTrailingSlashes(SubSeq(p, 1, Len(p) - 1))
    ELSE p

\* the last component of a path: what follows the last slash, trailing
\* slashes ignored
LastComponent(p) ==
    LET q == StripTrailingSlashes(p)
        slashes == { k \in 1..Len(q) : q[k] = Slash }
    IN  IF slashes = {} THEN q ELSE SubSeq(q, Max(slashes) + 1, Len(q))

\* the directory prefix of a path, up to and including the last slash
DirPrefix(p) ==
    LET q == StripTrailingSlashes(p)
        slashes == { k \in 1..Len(q) : q[k] = Slash }
    IN  IF slashes = {} THEN EmptyStr ELSE SubSeq(q, 1, Max(slashes))

\* path.extname: from the last dot of the last component to its end; empty
\* when there is no dot, when the only dot is the first character, or for ".."
extname(p) ==
    LET comp == LastComponent(p)
        dots == { k \in 1..Len(comp) : comp[k] = Dot }
    IN  IF dots = {} THEN EmptyStr
        ELSE IF Max(dots) = 1 THEN EmptyStr
        ELSE IF comp = <<Dot, Dot>> THEN EmptyStr
        ELSE SubSeq(comp, Max(dots), Len(comp))

\* path.basename(path, suffix): the last component, with suffix removed when
\* the component ends with it (compared case-sensitively) and is longer
basename(p, suffix) ==
    LET comp == LastComponent(p)
    IN  IF Len(suffix) > 0 /\ suffix = p THEN EmptyStr
        ELSE IF Len(suffix) > 0 /\ Len(suffix) < Len(comp) /\ endsWith(comp, suffix)
        THEN SubSeq(comp, 1, Len(comp) - Len(suffix))
        ELSE comp

\* the segments of a path between slashes
RECURSIVE Segments(_)
Segments(p) ==
    LET slashes == { k \in 1..Len(p) : p[k] = Slash }
    IN  IF slashes = {} THEN <<p>>
        ELSE <<SubSeq(p, 1, Min(slashes) - 1)>>
             \o Segments(SubSeq(p, Min(slashes) + 1, Len(p)))

\* normalizeString: drops empty and "." segments, resolves ".."
RECURSIVE NormalizeSegments(_, _, _)
NormalizeSegments(segs, acc, isAbs) ==
    IF segs = <<>> THEN acc
    ELSE LET s == Head(segs)
             rest == Tail(segs)
         IN  IF s = EmptyStr \/ s = <<Dot>>
             THEN NormalizeSegments(rest, acc, isAbs)
             ELSE IF s = <<Dot, Dot>>
             THEN IF Len(acc) > 0 /\ acc[Len(acc)] # <<Dot, Dot>>
                  THEN NormalizeSegments(rest, SubSeq(acc, 1, Len(acc) - 1), isAbs)
                  ELSE IF isAbs
                  THEN NormalizeSegments(rest, acc, isAbs)
                  ELSE NormalizeSegments(rest, Append(acc, s), isAbs)
             ELSE NormalizeSegments(rest, Append(acc, s), isAbs)

RECURSIVE JoinSegments(_)
JoinSegments(segs) ==
    IF segs = <<>> THEN EmptyStr
    ELSE IF Len(segs) = 1 THEN segs[1]
    ELSE segs[1] \o <<Slash>> \o JoinSegments(Tail(segs))

\* path.normalize
normalize(p) ==
    IF Len(p) = 0 THEN <<Dot>>
    ELSE LET isAbs == p[1] = Slash
             trailing == p[Len(p)] = Slash
             body == JoinSegments(NormalizeSegments(Segments(p), <<>>, isAbs))
         IN  IF Len(body) = 0
             THEN IF isAbs THEN <<Slash>>
                  ELSE IF trailing THEN <<Dot, Slash>> ELSE <<Dot>>
             ELSE (IF isAbs THEN <<Slash>> ELSE EmptyStr)
                  \o body
                  \o (IF trailing THEN <<Slash>> ELSE EmptyStr)

\* path.join(a, b): the non-empty arguments joined by a slash, normalized
join(a, b) ==
    IF Len(a) = 0 /\ Len(b) = 0 THEN <<Dot>>
    ELSE IF Len(a) = 0 THEN normalize(b)
    ELSE IF Len(b) = 0 THEN normalize(a)
    ELSE normalize(a \o <<Slash>> \o b)

\* Number.parseInt(s, 10): leading blanks and one sign are skipped, the
\* longest prefix of decimal digits is the value; NaN when there is none.
IsDigit(c) == \E k \in 1..10 : DigitChars[k] = c
DigitVal(c) == (CHOOSE k \in 1..10 : DigitChars[k] = c) - 1

RECURSIVE SkipBlanks(_)
SkipBlanks(s) ==
    IF Len(s) > 0 /\ s[1] = " " THEN SkipBlanks(Tail(s)) ELSE s

RECURSIVE DigitPrefix(_)
DigitPrefix(s) ==
    IF Len(s) > 0 /\ IsDigit(s[1])
    THEN <<s[1]>> \o DigitPrefix(Tail(s))
    ELSE <<>>

RECURSIVE DecimalValue(_)
DecimalValue(ds) ==
    IF ds = <<>> THEN 0
    ELSE DecimalValue(SubSeq(ds, 1, Len(ds) - 1)) * 10 + DigitVal(ds[Len(ds)])

parseInt(str) ==
    LET s == SkipBlanks(str)
        signed == Len(s) > 0 /\ s[1] \in {"-", "+"}
        body == IF signed THEN Tail(s) ELSE s
        ds == DigitPrefix(body)
    IN  IF ds = <<>>
        THEN [nan |-> TRUE, val |-> 0]
        ELSE [nan |-> FALSE,
              val |-> IF signed /\ s[1] = "-" THEN 0 - DecimalValue(ds)
                      ELSE DecimalValue(ds)]

\* Bun's Glob.match for the patterns the tools are given: "*" matches any run
\* of characters other than a slash, every other character matches itself.
RECURSIVE GlobMatch(_, _)
GlobMatch(pat, s) ==
    IF pat = <<>> THEN s = <<>>
    ELSE IF pat[1] = "*"
    THEN \/ GlobMatch(Tail(pat), s)
         \/ /\ Len(s) > 0
            /\ s[1] # Slash
            /\ GlobMatch(pat, Tail(s))
    ELSE /\ Len(s) > 0
         /\ s[1] = pat[1]
         /\ GlobMatch(Tail(pat), Tail(s))

(***************************************************************************)
(* The three converters and their per-tool constants.                      *)
(***************************************************************************)
Tools == {"mp4", "webm", "webp"}

ExtWebm == <<".","w","e","b","m">>
ExtAvi  == <<".","a","v","i">>
ExtMov  == <<".","m","o","v">>
ExtMkv  == <<".","m","k","v">>
ExtFlv  == <<".","f","l","v">>
ExtMp4  == <<".","m","p","4">>
ExtPng  == <<".","p","n","g">>
ExtJpg  == <<".","j","p","g">>
ExtJpeg == <<".","j","p","e","g">>
ExtGif  == <<".","g","i","f">>
ExtTiff == <<".","t","i","f","f">>
ExtTif  == <<".","t","i","f">>
ExtBmp  == <<".","b","m","p">>
ExtWebp == <<".","w","e","b","p">>
ExtTxt  == <<".","t","x","t">>

\* the literal extension list each converter tests `ext` against
AllowedExt(t) ==
    CASE t = "mp4"  -> {ExtWebm, ExtAvi, ExtMov, ExtMkv, ExtFlv}
      [] t = "webm" -> {ExtMp4, ExtAvi, ExtMov, ExtMkv, ExtFlv, ExtWebm}
      [] t = "webp" -> {ExtPng, ExtJpg, ExtJpeg, ExtGif, ExtTiff, ExtTif,
                        ExtBmp, ExtWebp}

\* the extensions of the brace list of the --dir glob
DirScanExt(t) ==
    CASE t = "mp4"  -> {ExtWebm, ExtAvi, ExtMov, ExtMkv, ExtFlv}
      [] t = "webm" -> {ExtMp4, ExtAvi, ExtMov, ExtMkv, ExtFlv, ExtWebm}
      [] t = "webp" -> {ExtPng, ExtJpg, ExtJpeg, ExtGif, ExtTiff, ExtTif,
                        ExtBmp}

TargetExt(t) ==
    CASE t = "mp4"  -> ExtMp4
      [] t = "webm" -> ExtWebm
      [] t = "webp" -> ExtWebp

\* `let keepOriginal = ...` of main
DefaultKeepAlways(t) == TRUE
DefaultKeep(t) == t # "mp4"

\* `let quality = ...` of main
DefaultQuality(t) ==
    CASE t = "mp4" -> 22 [] t = "webm" -> 30 [] t = "webp" -> 80

\* the bounds of the range test of --quality
QualityMin(t) ==
    CASE t = "mp4" -> 0 [] t = "webm" -> 15 [] t = "webp" -> 0

QualityMax(t) ==
    CASE t = "mp4" -> 51 [] t = "webm" -> 35 [] t = "webp" -> 100

\* isNaN(quality) || quality < min || quality > max
QualityRejected(t, q) ==
    q.nan \/ q.val < QualityMin(t) \/ q.val > QualityMax(t)

OptimizedSuffix == <<"-","o","p","t","i","m","i","z","e","d">>

\* a JavaScript string used as a condition: undefined and '' are both falsy.
\* An outputDir that was never set is modelled as the empty string.
Truthy(str) == Len(str) > 0
NoOutputDir == EmptyStr

(***************************************************************************)
(* Per-candidate computations of the converter loops.                      *)
(***************************************************************************)
\* `const ext = ...`: convertToWebP lower-cases it at once, the video
\* converters keep the letter case of the path
ExtOf(t, inputPath) ==
    IF t = "webp" THEN toLowerCase(extname(inputPath)) ELSE extname(inputPath)

\* the extension test that decides "Skipping non-video/non-image file"
IsEligibleExtCaseSensitive(t, ext) == ext \in AllowedExt(t)
IsEligibleExt(t, ext) ==
    IF t = "webp" THEN ext \in AllowedExt(t)
    ELSE toLowerCase(ext) \in AllowedExt(t)

\* "Determine output path"
OutputPathOf(t, inputPath, outDir) ==
    LET ext == ExtOf(t, inputPath)
        baseNameWithoutExt == basename(inputPath, ext)
        plainName == baseNameWithoutExt \o TargetExt(t)
        plainPath == IF Truthy(outDir)
                     THEN join(outDir, plainName)
                     ELSE StrReplace(inputPath, ext, TargetExt(t))
    IN  IF t = "mp4" THEN plainPath
        ELSE IF toLowerCase(ext) = TargetExt(t) /\ ~Truthy(outDir)
        THEN StrReplace(inputPath, basename(inputPath, EmptyStr),
                        baseNameWithoutExt \o OptimizedSuffix \o TargetExt(t))
        ELSE plainPath

\* the guard in front of unlinkSync(inputPath)
ShouldUnlinkIgnoringKeep(t, keep, ext) == TRUE
ShouldUnlink(t, keep, ext) ==
    IF t = "webp" THEN ~keep /\ ext # ExtWebp ELSE ~keep

(***************************************************************************)
(* Inputs of the model: the files, directories, patterns and quality       *)
(* strings a command line is drawn from.                                   *)
(***************************************************************************)
PathAMov  == <<"a",".","m","o","v">>
PathUMov  == <<"A",".","M","O","V">>
PathUWebm == <<"B",".","W","E","B","M">>
PathPPng  == <<"p",".","p","n","g">>
PathUWebp == <<"Q",".","W","E","B","P">>
PathNTxt  == <<"n",".","t","x","t">>
PathVAvi  == <<"v","/","e",".","a","v","i">>
PathVGif  == <<"v","/","e",".","g","i","f">>

\* the candidate paths of a command line, per tool: a lower-case source, an
\* upper-case source (of the target format for webm and webp) and a file
\* that is no source of the tool
Paths(t) ==
    CASE t = "mp4"  -> {PathAMov, PathUMov, PathNTxt}
      [] t = "webm" -> {PathAMov, PathUWebm, PathNTxt}
      [] t = "webp" -> {PathPPng, PathUWebp, PathNTxt}

OutputDirs == { <<"o","u","t">> }

Patterns(t) ==
    CASE t = "mp4"  -> { <<"*">> \o ExtMov }
      [] t = "webm" -> { <<"*">> \o ExtMov }
      [] t = "webp" -> { <<"*">> \o ExtPng }

ScanDirs == { <<"v">> }

\* the files that may exist on disk when the tool starts: the candidate
\* paths and one source file in the sub-directory v
DiskFiles(t) ==
    Paths(t) \cup (IF t = "webp" THEN {PathVGif} ELSE {PathVAvi})

QualityStrings ==
    { <<"1","8">>, <<"9","9">>, <<"1","8","x">>, <<"a","b","c">>, <<"-","1">> }

(***************************************************************************)
(* State.                                                                  *)
(***************************************************************************)
VARIABLES
    tool,           \* which of the three scripts runs
    argsKind,       \* process.argv.slice(2): "none", "help" (contains
                    \* --help or -h) or "other"
    pc,             \* "main", "parse", "loop", "exited"
    argRead,        \* the parse loop has consumed at least one argument
    inputFiles,     \* main's inputFiles
    outputDir,      \* main's outputDir
    keepOriginal,   \* main's keepOriginal
    quality,        \* main's quality
    retentionFlag,  \* the last of --keep / --remove on the command line
    qualityArg,     \* <<qualityStr>> of the last --quality parsed, or <<>>
    exitCode,       \* the exit status, NoExit while the process runs
    exitReason,     \* why the process exited
    fs,             \* the paths that exist on disk
    idx,            \* index of the next candidate of the for-of loop
    active,         \* the conversions started and not yet settled
    outcomes,       \* one record per candidate handled, in order of handling
    spc,            \* screenshot tool: the await at which it stands
    urls,           \* takeScreenshots' urls
    video,          \* takeScreenshots' recordVideo
    browser,        \* "none", "open" or "closed"
    uidx,           \* index of the URL of the for-of loop, 0 outside of it
    events,         \* one record per awaited call that settled, in order
    recording,      \* the URLs whose screen recorder is running
    elapsed,        \* scrollPage: Date.now() - startTime
    iterations,     \* scrollPage: completed turns of the while loop
    scrollTop,      \* the page's scroll position
    scrollHeight,   \* the page's documentElement.scrollHeight
    durationMs      \* scrollPage's durationMs

shotVars == <<spc, urls, video, browser, uidx, events, recording, elapsed,
              iterations, scrollTop, scrollHeight, durationMs>>

vars == <<tool, argsKind, pc, argRead, inputFiles, outputDir, keepOriginal,
          quality, retentionFlag, qualityArg, exitCode, exitReason, fs, idx,
          active, outcomes, shotVars>>

\* the screenshot tool is not the script that runs
ShotIdle ==
    /\ spc = "idle"
    /\ urls = <<>>
    /\ video = FALSE
    /\ browser = "none"
    /\ uidx = 0
    /\ events = <<>>
    /\ recording = {}
    /\ elapsed = 0
    /\ iterations = 0
    /\ scrollTop = 0
    /\ scrollHeight = 0
    /\ durationMs = 0

optionVars == <<outputDir, keepOriginal, quality, retentionFlag, qualityArg>>
loopVars == <<fs, idx, active, outcomes>>

NoExit == 0 - 1
NoPath == EmptyStr

Init ==
    /\ ShotIdle
    /\ tool \in Tools
    /\ argsKind \in {"none", "help", "other"}
    /\ pc = "main"
    /\ argRead = FALSE
    /\ inputFiles = <<>>
    /\ outputDir = NoOutputDir
    /\ keepOriginal = DefaultKeep(tool)
    /\ quality = DefaultQuality(tool)
    /\ retentionFlag = "none"
    /\ qualityArg = <<>>
    /\ exitCode = NoExit
    /\ exitReason = "none"
    /\ fs \in SUBSET DiskFiles(tool)
    /\ idx = 1
    /\ active = {}
    /\ outcomes = <<>>

\* process.exit(code)
Exit(code, reason) ==
    /\ pc' = "exited"
    /\ exitCode' = code
    /\ exitReason' = reason

(***************************************************************************)
(* main: help test and argument parsing.                                   *)
(***************************************************************************)
\* args.length === 0 || args.includes('--help') || args.includes('-h')
MainHelp ==
    /\ pc = "main"
    /\ argsKind \in {"none", "help"}
    /\ Exit(0, "help")
    /\ UNCHANGED <<shotVars, tool, argsKind, argRead, inputFiles, optionVars, loopVars>>

MainParse ==
    /\ pc = "main"
    /\ argsKind = "other"
    /\ pc' = "parse"
    /\ UNCHANGED <<shotVars, tool, argsKind, argRead, inputFiles, optionVars, exitCode,
                   exitReason, loopVars>>

\* an option that takes a value stands last on the command line
\* (i + 1 >= args.length), or its value is the empty string
ParseMissingValue ==
    /\ pc = "parse"
    /\ Exit(1, "missing-value")
    /\ argRead' = TRUE
    /\ UNCHANGED <<shotVars, tool, argsKind, inputFiles, optionVars, loopVars>>

\* --output / -o <dir>
ParseOutput ==
    /\ pc = "parse"
    /\ \E dir \in OutputDirs : outputDir' = dir
    /\ argRead' = TRUE
    /\ UNCHANGED <<shotVars, tool, argsKind, pc, inputFiles, keepOriginal, quality,
                   retentionFlag, qualityArg, exitCode, exitReason, loopVars>>

\* the sequences that enumerate a finite set without repetition
Enumerations(S) ==
    { e \in [1..Cardinality(S) -> S] : \A x \in S : \E k \in DOMAIN e : e[k] = x }

\* --pattern / -p <glob>: every file the glob yields under '.' is pushed, in
\* the order the scan yields them
ParsePattern ==
    /\ pc = "parse"
    /\ \E pattern \in Patterns(tool) :
         LET found == { f \in fs : GlobMatch(pattern, f) }
         IN  /\ Len(inputFiles) + Cardinality(found) <= MaxFiles
             /\ \E e \in Enumerations(found) : inputFiles' = inputFiles \o e
    /\ argRead' = TRUE
    /\ UNCHANGED <<shotVars, tool, argsKind, pc, optionVars, exitCode, exitReason,
                   loopVars>>

\* the files glob '**/*.{...}' yields under dir, relative to dir
DirScan(t, dir) ==
    LET prefix == IF dir = <<Dot>> THEN EmptyStr ELSE dir \o <<Slash>>
    IN  { SubSeq(f, Len(prefix) + 1, Len(f)) :
            f \in { g \in fs : /\ startsWith(g, prefix)
                               /\ Len(g) > Len(prefix)
                               /\ extname(g) \in DirScanExt(t)
                               /\ LastComponent(g)[1] # Dot } }

\* --dir / -d <directory>: join(dir, file) is pushed for every file found
ParseDir ==
    /\ pc = "parse"
    /\ \E dir \in ScanDirs :
         LET found == DirScan(tool, dir)
         IN  /\ Len(inputFiles) + Cardinality(found) <= MaxFiles
             /\ \E e \in Enumerations(found) :
                  inputFiles' = inputFiles \o [k \in DOMAIN e |-> join(dir, e[k])]
    /\ argRead' = TRUE
    /\ UNCHANGED <<shotVars, tool, argsKind, pc, optionVars, exitCode, exitReason,
                   loopVars>>

\* --keep / -k
ParseKeep ==
    /\ pc = "parse"
    /\ keepOriginal' = TRUE
    /\ retentionFlag' = "keep"
    /\ argRead' = TRUE
    /\ UNCHANGED <<shotVars, tool, argsKind, pc, inputFiles, outputDir, quality,
                   qualityArg, exitCode, exitReason, loopVars>>

\* --remove / -r: the MP4 converter has no such branch, there the argument
\* starts with '-' and falls through the whole if-else chain
ParseRemove ==
    /\ pc = "parse"
    /\ keepOriginal' = IF tool = "mp4" THEN keepOriginal ELSE FALSE
    /\ retentionFlag' = "remove"
    /\ argRead' = TRUE
    /\ UNCHANGED <<shotVars, tool, argsKind, pc, inputFiles, outputDir, quality,
                   qualityArg, exitCode, exitReason, loopVars>>

\* --quality / -q <value>
ParseQuality ==
    /\ pc = "parse"
    /\ \E qualityStr \in QualityStrings :
         LET q == parseInt(qualityStr)
         IN  /\ qualityArg' = <<qualityStr>>
             /\ IF QualityRejected(tool, q)
                THEN /\ Exit(1, "bad-quality")
                     /\ UNCHANGED quality
                ELSE /\ quality' = q.val
                     /\ UNCHANGED <<pc, exitCode, exitReason>>
    /\ argRead' = TRUE
    /\ UNCHANGED <<shotVars, tool, argsKind, inputFiles, outputDir, keepOriginal,
                   retentionFlag, loopVars>>

\* an argument that does not start with '-' is an input file
ParsePositional ==
    /\ pc = "parse"
    /\ Len(inputFiles) < MaxFiles
    /\ \E arg \in Paths(tool) : inputFiles' = Append(inputFiles, arg)
    /\ argRead' = TRUE
    /\ UNCHANGED <<shotVars, tool, argsKind, pc, optionVars, exitCode, exitReason,
                   loopVars>>

\* after the parse loop: `if (inputFiles.length === 0)`, else the banner and
\* the call of the converter
CheckInputsUnguarded ==
    /\ pc = "parse"
    /\ argRead
    /\ pc' = "loop"
    /\ UNCHANGED <<shotVars, tool, argsKind, argRead, inputFiles, optionVars, exitCode,
                   exitReason, loopVars>>

CheckInputs ==
    /\ pc = "parse"
    /\ argRead
    /\ IF Len(inputFiles) = 0
       THEN Exit(1, "no-input")
       ELSE /\ pc' = "loop"
            /\ UNCHANGED <<exitCode, exitReason>>
    /\ UNCHANGED <<shotVars, tool, argsKind, argRead, inputFiles, optionVars, loopVars>>

(***************************************************************************)
(* convertToMp4 / convertToWebM / convertToWebP: the for-of loop.  The     *)
(* loop body is suspended at its await until the conversion it started     *)
(* has settled; idx counts the candidates the loop has reached.            *)
(***************************************************************************)
\* `await`: the loop goes on only when no conversion is pending
SettledWithoutAwait(pending) == TRUE
Settled(pending) == pending = {}

Job(k, inputPath) ==
    [index      |-> k,
     inputPath  |-> inputPath,
     ext        |-> ExtOf(tool, inputPath),
     outputPath |-> OutputPathOf(tool, inputPath, outputDir),
     quality    |-> quality]

Outcome(k, inputPath, kind, outputPath, tried, deleted, q) ==
    [index       |-> k,
     path        |-> inputPath,
     kind        |-> kind,
     existed     |-> inputPath \in fs,
     outputPath  |-> outputPath,
     unlinkTried |-> tried,
     deleted     |-> deleted,
     quality     |-> q]

AtCandidate ==
    /\ pc = "loop"
    /\ Settled(active)
    /\ idx <= Len(inputFiles)

\* if (!existsSync(inputPath)) { ...; continue; }
LoopSkipMissing ==
    /\ AtCandidate
    /\ inputFiles[idx] \notin fs
    /\ outcomes' = Append(outcomes,
                     Outcome(idx, inputFiles[idx], "Skipped", NoPath, FALSE, FALSE, quality))
    /\ idx' = idx + 1
    /\ UNCHANGED <<shotVars, tool, argsKind, pc, argRead, inputFiles, optionVars,
                   exitCode, exitReason, fs, active>>

\* the same branch without its `continue`: the candidate is reported as
\* skipped and converted all the same
LoopSkipExtFallThrough ==
    /\ AtCandidate
    /\ inputFiles[idx] \in fs
    /\ ~IsEligibleExt(tool, ExtOf(tool, inputFiles[idx]))
    /\ outcomes' = Append(outcomes,
                     Outcome(idx, inputFiles[idx], "Skipped", NoPath, FALSE, FALSE, quality))
    /\ active' = active \cup {Job(idx, inputFiles[idx])}
    /\ idx' = idx + 1
    /\ UNCHANGED <<shotVars, tool, argsKind, pc, argRead, inputFiles, optionVars,
                   exitCode, exitReason, fs>>

\* if (![...].includes(ext...)) { ...; continue; }
LoopSkipExt ==
    /\ AtCandidate
    /\ inputFiles[idx] \in fs
    /\ ~IsEligibleExt(tool, ExtOf(tool, inputFiles[idx]))
    /\ outcomes' = Append(outcomes,
                     Outcome(idx, inputFiles[idx], "Skipped", NoPath, FALSE, FALSE, quality))
    /\ idx' = idx + 1
    /\ UNCHANGED <<shotVars, tool, argsKind, pc, argRead, inputFiles, optionVars,
                   exitCode, exitReason, fs, active>>

\* try { output path; ffmpeg(inputPath)....run() / sharp(inputPath)...: the
\* external conversion is started and awaited
LoopStart ==
    /\ AtCandidate
    /\ inputFiles[idx] \in fs
    /\ IsEligibleExt(tool, ExtOf(tool, inputFiles[idx]))
    /\ active' = active \cup {Job(idx, inputFiles[idx])}
    /\ idx' = idx + 1
    /\ UNCHANGED <<shotVars, tool, argsKind, pc, argRead, inputFiles, optionVars,
                   exitCode, exitReason, fs, outcomes>>

\* the success path without the try/catch around unlinkSync: a failing
\* unlink reaches the catch block of the loop body after "Converted" has
\* been reported
ConvertEndUnlinkThrows ==
    /\ pc = "loop"
    /\ \E job \in active : \E unlinkOk \in BOOLEAN :
         LET tried == ShouldUnlink(tool, keepOriginal, job.ext)
             written == fs \cup {job.outputPath}
             deleted == tried /\ unlinkOk /\ job.inputPath \in written
             converted == Outcome(job.index, job.inputPath, "Converted",
                                  job.outputPath, tried, deleted, job.quality)
             failed == Outcome(job.index, job.inputPath, "Failed",
                               job.outputPath, tried, deleted, job.quality)
         IN  /\ fs' = IF deleted THEN written \ {job.inputPath} ELSE written
             /\ outcomes' = IF tried /\ ~deleted
                            THEN outcomes \o <<converted, failed>>
                            ELSE Append(outcomes, converted)
             /\ active' = active \ {job}
    /\ UNCHANGED <<shotVars, tool, argsKind, pc, argRead, inputFiles, optionVars,
                   exitCode, exitReason, idx>>

\* the conversion succeeds ('end' of ffmpeg, toFile of sharp resolved): the
\* output exists, "Converted" is reported, the source is unlinked when the
\* guard says so; unlinkSync may throw, which is only logged
ConvertEnd ==
    /\ pc = "loop"
    /\ \E job \in active : \E unlinkOk \in BOOLEAN :
         LET tried == ShouldUnlink(tool, keepOriginal, job.ext)
             written == fs \cup {job.outputPath}
             deleted == tried /\ unlinkOk /\ job.inputPath \in written
         IN  /\ fs' = IF deleted THEN written \ {job.inputPath} ELSE written
             /\ outcomes' = Append(outcomes,
                              Outcome(job.index, job.inputPath, "Converted",
                                      job.outputPath, tried, deleted, job.quality))
             /\ active' = active \ {job}
    /\ UNCHANGED <<shotVars, tool, argsKind, pc, argRead, inputFiles, optionVars,
                   exitCode, exitReason, idx>>

\* the catch block re-throwing: the rejection reaches main().catch
ConvertErrorAbort ==
    /\ pc = "loop"
    /\ \E job \in active :
         /\ outcomes' = Append(outcomes,
                          Outcome(job.index, job.inputPath, "Failed",
                                  job.outputPath, FALSE, FALSE, job.quality))
         /\ active' = active \ {job}
    /\ Exit(1, "fatal")
    /\ UNCHANGED <<shotVars, tool, argsKind, argRead, inputFiles, optionVars, fs, idx>>

\* the conversion fails ('error' of ffmpeg, a rejected sharp or Bun.file
\* promise): caught by the catch block of the loop body and logged; the
\* converter may have left an output file behind
ConvertError ==
    /\ pc = "loop"
    /\ \E job \in active : \E wrote \in BOOLEAN :
         /\ fs' = IF wrote THEN fs \cup {job.outputPath} ELSE fs
         /\ outcomes' = Append(outcomes,
                          Outcome(job.index, job.inputPath, "Failed",
                                  job.outputPath, FALSE, FALSE, job.quality))
         /\ active' = active \ {job}
    /\ UNCHANGED <<shotVars, tool, argsKind, pc, argRead, inputFiles, optionVars,
                   exitCode, exitReason, idx>>

\* the loop is over: "All conversions completed!", main returns
LoopDone ==
    /\ pc = "loop"
    /\ Settled(active)
    /\ idx > Len(inputFiles)
    /\ Exit(0, "completed")
    /\ UNCHANGED <<shotVars, tool, argsKind, argRead, inputFiles, optionVars, loopVars>>

Next ==
    \/ MainHelp
    \/ MainParse
    \/ ParseMissingValue
    \/ ParseOutput
    \/ ParsePattern
    \/ ParseDir
    \/ ParseKeep
    \/ ParseRemove
    \/ ParseQuality
    \/ ParsePositional
    \/ CheckInputs
    \/ LoopSkipMissing
    \/ LoopSkipExt
    \/ LoopStart
    \/ ConvertEnd
    \/ ConvertError
    \/ LoopDone

Spec == Init /\ [][Next]_vars

(***************************************************************************)
(* The converter function on its own: one candidate path drawn from a      *)
(* larger set of path shapes, the options given as arguments.              *)
(***************************************************************************)
PathExts == {ExtMov, toLowerCase(ExtMov), ExtWebm, ExtPng, ExtWebp, ExtTxt}
                \cup { [k \in 1..Len(e) |->
                          IF \E j \in 1..26 : LowerChars[j] = e[k]
                          THEN UpperChars[CHOOSE j \in 1..26 : LowerChars[j] = e[k]]
                          ELSE e[k]] : e \in {ExtMov, ExtWebm, ExtPng, ExtWebp} }
                \cup {EmptyStr}

PathStems == { <<"c">> } \cup { <<"c">> \o e : e \in {ExtMov, ExtWebm, ExtPng, ExtWebp} }

PathDirs == { EmptyStr, <<"d", Slash>> }
                \cup { <<"c">> \o e \o <<Slash>> : e \in {ExtMov, ExtWebm, ExtPng, ExtWebp} }

PathUniverse == { d \o b \o e : d \in PathDirs, b \in PathStems, e \in PathExts }

PathInit ==
    /\ ShotIdle
    /\ tool \in Tools
    /\ argsKind = "other"
    /\ pc = "loop"
    /\ argRead = TRUE
    /\ \E p \in PathUniverse :
         /\ inputFiles = <<p>>
         /\ fs \in {{}, {p}}
    /\ outputDir \in {NoOutputDir} \cup OutputDirs
    /\ keepOriginal = DefaultKeep(tool)
    /\ quality = DefaultQuality(tool)
    /\ retentionFlag = "none"
    /\ qualityArg = <<>>
    /\ exitCode = NoExit
    /\ exitReason = "none"
    /\ idx = 1
    /\ active = {}
    /\ outcomes = <<>>

PathNext ==
    \/ LoopSkipMissing
    \/ LoopSkipExt
    \/ LoopStart
    \/ ConvertEnd
    \/ ConvertError
    \/ LoopDone

PathSpec == PathInit /\ [][PathNext]_vars

(***************************************************************************)
(* The converter function on a batch of two different candidates whose     *)
(* names share a stem or a directory.                                      *)
(***************************************************************************)
PathAAvi  == <<"a",".","a","v","i">>
PathDAMov == <<"d","/","a",".","m","o","v">>
PathPJpg  == <<"p",".","j","p","g">>
PathDPPng == <<"d","/","p",".","p","n","g">>

PairPaths(t) ==
    IF t = "webp" THEN {PathPPng, PathPJpg, PathDPPng, PathNTxt}
    ELSE {PathAMov, PathAAvi, PathDAMov, PathNTxt}

PairInit ==
    /\ ShotIdle
    /\ tool \in Tools
    /\ argsKind = "other"
    /\ pc = "loop"
    /\ argRead = TRUE
    /\ \E p \in PairPaths(tool) : \E q \in PairPaths(tool) \ {p} :
         /\ inputFiles = <<p, q>>
         /\ fs \in {{p, q}, {p}}
    /\ outputDir \in {NoOutputDir} \cup OutputDirs
    /\ keepOriginal = DefaultKeep(tool)
    /\ quality = DefaultQuality(tool)
    /\ retentionFlag = "none"
    /\ qualityArg = <<>>
    /\ exitCode = NoExit
    /\ exitReason = "none"
    /\ idx = 1
    /\ active = {}
    /\ outcomes = <<>>

PairNext ==
    \/ LoopSkipMissing
    \/ LoopSkipExt
    \/ LoopStart
    \/ ConvertEnd
    \/ ConvertError
    \/ LoopDone

PairSpec == PairInit /\ [][PairNext]_vars

(***************************************************************************)
(* The screenshot tool: takeScreenshots, recordVideo and scrollPage.       *)
(***************************************************************************)
VIDEO_DURATION_MS == 15000
SCROLL_INTERVAL_MS == 12
SCROLL_AMOUNT == 1
\* MOBILE_VIEWPORT.height, the page's clientHeight
ClientHeight == 844

\* the hosts of the URLs given; a URL is modelled by its hostname
UrlHostA == <<"a",".","i","o">>
ShotUrls == {UrlHostA}
ShotOutputDir == <<"s">>

\* hostname.replace(/\./g, '_')
ReplaceDots(s) == [i \in DOMAIN s |-> IF s[i] = "." THEN "_" ELSE s[i]]

\* Date.now() at the k-th URL, in decimal digits: later URLs get later stamps
Timestamp(k) == <<DigitChars[k + 1]>>

\* `${urlObj.hostname.replace(/\./g, '_')}_${timestamp}` joined to outputDir
CaptureStem(k) == join(outputDir, ReplaceDots(urls[k]) \o <<"_">> \o Timestamp(k))
ScreenshotFilepath(k) == CaptureStem(k) \o ExtPng
VideoFilepath(k) == CaptureStem(k) \o ExtMp4
\* filepath.replace('.mp4', '.webm')
TempWebmPath(k) == StrReplace(VideoFilepath(k), ExtMp4, ExtWebm)

\* the awaited call at which a URL of the loop stands settled
Log(k, step, ok, kept) ==
    events' = Append(events, [url |-> k, step |-> step, ok |-> ok,
                              unlinkFailed |-> kept])

\* the for-of loop goes on to the next URL, or leaves the try block
UrlEnds ==
    /\ uidx' = uidx + 1
    /\ spc' = IF uidx < Len(urls) THEN "goto" ELSE "close"

scrollLocals == <<elapsed, iterations, durationMs>>
pageVars == <<scrollTop, scrollHeight>>
converterVars == <<tool, argsKind, pc, argRead, inputFiles, optionVars,
                   exitCode, exitReason, idx, active, outcomes>>

ShotInit ==
    /\ tool = "shot"
    /\ argsKind = "other"
    /\ pc = "idle"
    /\ argRead = TRUE
    /\ inputFiles = <<>>
    /\ outputDir = ShotOutputDir
    /\ keepOriginal = FALSE
    /\ quality = 0
    /\ retentionFlag = "none"
    /\ qualityArg = <<>>
    /\ exitCode = NoExit
    /\ exitReason = "none"
    /\ fs = {}
    /\ idx = 1
    /\ active = {}
    /\ outcomes = <<>>
    /\ spc = "launch"
    /\ \E n \in 1..MaxUrls : urls \in [1..n -> ShotUrls]
    /\ video \in BOOLEAN
    /\ browser = "none"
    /\ uidx = 0
    /\ events = <<>>
    /\ recording = {}
    /\ elapsed = 0
    /\ iterations = 0
    /\ scrollTop = 0
    /\ scrollHeight = ClientHeight
    /\ durationMs = 0

\* puppeteer.launch, before the try block: a rejection leaves the function
Launch ==
    /\ spc = "launch"
    /\ \E ok \in BOOLEAN :
         /\ Log(0, "launch", ok, FALSE)
         /\ browser' = IF ok THEN "open" ELSE browser
         /\ spc' = IF ok THEN "newPage" ELSE "rejected"
    /\ UNCHANGED <<converterVars, fs, urls, video, uidx, recording,
                   scrollLocals, pageVars>>

SetupSteps == <<"newPage", "setViewport", "setUserAgent">>

\* newPage, setViewport and setUserAgent resolve in turn; then the loop
PageSetup ==
    /\ \E i \in DOMAIN SetupSteps :
         /\ spc = SetupSteps[i]
         /\ Log(0, SetupSteps[i], TRUE, FALSE)
         /\ spc' = IF i < Len(SetupSteps) THEN SetupSteps[i + 1] ELSE "goto"
         /\ uidx' = IF i < Len(SetupSteps) THEN uidx ELSE 1
    /\ UNCHANGED <<converterVars, fs, urls, video, browser, recording,
                   scrollLocals, pageVars>>

\* a setup call that rejects without the finally block
PageSetupThrowsNoFinally ==
    /\ \E i \in DOMAIN SetupSteps :
         /\ spc = SetupSteps[i]
         /\ Log(0, SetupSteps[i], FALSE, FALSE)
    /\ spc' = "rejected"
    /\ UNCHANGED <<converterVars, fs, urls, video, browser, uidx, recording,
                   scrollLocals, pageVars>>

\* a setup call rejects: control goes to the finally block
PageSetupThrows ==
    /\ \E i \in DOMAIN SetupSteps :
         /\ spc = SetupSteps[i]
         /\ Log(0, SetupSteps[i], FALSE, FALSE)
    /\ spc' = "close"
    /\ UNCHANGED <<converterVars, fs, urls, video, browser, uidx, recording,
                   scrollLocals, pageVars>>

\* page.goto: on success a new document is shown from its top, as tall as the
\* viewport or taller
Goto ==
    /\ spc = "goto"
    /\ \E ok \in BOOLEAN :
         /\ Log(uidx, "goto", ok, FALSE)
         /\ IF ok
            THEN /\ spc' = "screenshot"
                 /\ scrollTop' = 0
                 /\ \E h \in {0, MaxScroll} : scrollHeight' = ClientHeight + h
                 /\ UNCHANGED uidx
            ELSE /\ UrlEnds
                 /\ UNCHANGED pageVars
    /\ UNCHANGED <<converterVars, fs, urls, video, browser, recording,
                   scrollLocals>>

\* page.screenshot resolves; without video the URL is done
Screenshot ==
    /\ spc = "screenshot"
    /\ Log(uidx, "screenshot", TRUE, FALSE)
    /\ fs' = fs \cup {ScreenshotFilepath(uidx)}
    /\ IF video
       THEN /\ spc' = "scrollTo"
            /\ UNCHANGED uidx
       ELSE UrlEnds
    /\ UNCHANGED <<converterVars, urls, video, browser, recording,
                   scrollLocals, pageVars>>

\* a rejected page.screenshot that is not thrown
ScreenshotFailsContinue ==
    /\ spc = "screenshot"
    /\ Log(uidx, "screenshot", FALSE, FALSE)
    /\ IF video
       THEN /\ spc' = "scrollTo"
            /\ UNCHANGED uidx
       ELSE UrlEnds
    /\ UNCHANGED <<converterVars, fs, urls, video, browser, recording,
                   scrollLocals, pageVars>>

\* page.screenshot rejects: the catch block of the loop body
ScreenshotFails ==
    /\ spc = "screenshot"
    /\ Log(uidx, "screenshot", FALSE, FALSE)
    /\ UrlEnds
    /\ UNCHANGED <<converterVars, fs, urls, video, browser, recording,
                   scrollLocals, pageVars>>

\* window.scrollTo(0, 0) and the 500 ms wait
ScrollTo ==
    /\ spc = "scrollTo"
    /\ \E ok \in BOOLEAN :
         /\ Log(uidx, "scrollTo", ok, FALSE)
         /\ IF ok
            THEN /\ spc' = "screencast"
                 /\ scrollTop' = 0
                 /\ UNCHANGED uidx
            ELSE /\ UrlEnds
                 /\ UNCHANGED scrollTop
    /\ UNCHANGED <<converterVars, fs, urls, video, browser, recording,
                   scrollLocals, scrollHeight>>

\* recordVideo up to the call of scrollPage: the .mp4 check, page.screencast
Screencast ==
    /\ spc = "screencast"
    /\ \E started \in BOOLEAN :
         LET ok == started /\ endsWith(VideoFilepath(uidx), ExtMp4)
         IN  /\ Log(uidx, "screencast", ok, FALSE)
             /\ IF ok
                THEN /\ recording' = recording \cup {uidx}
                     /\ fs' = fs \cup {TempWebmPath(uidx)}
                     /\ spc' = "scrollLoop"
                     /\ elapsed' = 0
                     /\ iterations' = 0
                     /\ durationMs' = VIDEO_DURATION_MS
                     /\ UNCHANGED uidx
                ELSE /\ UrlEnds
                     /\ UNCHANGED <<recording, fs, scrollLocals>>
    /\ UNCHANGED <<converterVars, urls, video, browser, pageVars>>

\* scrollTop + clientHeight < scrollHeight
CanScroll == scrollTop + ClientHeight < scrollHeight

\* the loop test holds and the position is evaluated, whatever it is
ScrollCheckAlways ==
    /\ spc = "scrollLoop"
    /\ elapsed < durationMs
    /\ spc' = "scrollBy"
    /\ UNCHANGED <<converterVars, fs, urls, video, browser, uidx, events,
                   recording, scrollLocals, pageVars>>

\* the loop test holds and canScroll is evaluated
ScrollCheck ==
    /\ spc = "scrollLoop"
    /\ elapsed < durationMs
    /\ spc' = IF CanScroll THEN "scrollBy" ELSE "scrollSleep"
    /\ UNCHANGED <<converterVars, fs, urls, video, browser, uidx, events,
                   recording, scrollLocals, pageVars>>

\* window.scrollBy(0, SCROLL_AMOUNT); the browser stops at the bottom
ScrollBy ==
    /\ spc = "scrollBy"
    /\ scrollTop' = Min({scrollTop + SCROLL_AMOUNT,
                         Max({scrollTop, scrollHeight - ClientHeight})})
    /\ spc' = "scrollSleep"
    /\ UNCHANGED <<converterVars, fs, urls, video, browser, uidx, events,
                   recording, scrollLocals, scrollHeight>>

\* the timer of SCROLL_INTERVAL_MS fires, late milliseconds late
ScrollSleep(late) ==
    /\ spc = "scrollSleep"
    /\ elapsed' = elapsed + SCROLL_INTERVAL_MS + late
    /\ iterations' = iterations + 1
    /\ spc' = "scrollLoop"
    /\ UNCHANGED <<converterVars, fs, urls, video, browser, uidx, events,
                   recording, durationMs, pageVars>>

\* the loop test fails: scrollPage returns, to recordVideo when called by it
ScrollReturn ==
    /\ spc = "scrollLoop"
    /\ elapsed >= durationMs
    /\ Log(uidx, "scroll", TRUE, FALSE)
    /\ spc' = IF uidx = 0 THEN "returned" ELSE "stop"
    /\ elapsed' = 0
    /\ iterations' = 0
    /\ UNCHANGED <<converterVars, fs, urls, video, browser, uidx, recording,
                   durationMs, pageVars>>

\* a page.evaluate of the loop rejects: scrollPage and recordVideo throw,
\* recorder.stop() is not reached
ScrollThrows ==
    /\ \/ spc = "scrollLoop" /\ elapsed < durationMs
       \/ spc = "scrollBy"
    /\ Log(uidx, "scroll", FALSE, FALSE)
    /\ IF uidx = 0
       THEN /\ spc' = "threw"
            /\ UNCHANGED uidx
       ELSE UrlEnds
    /\ elapsed' = 0
    /\ iterations' = 0
    /\ UNCHANGED <<converterVars, fs, urls, video, browser, recording,
                   durationMs, pageVars>>

\* recorder.stop(); when it rejects the recorder may or may not have stopped
Stop ==
    /\ spc = "stop"
    /\ \E ok \in BOOLEAN : \E stopped \in BOOLEAN :
         /\ ok => stopped
         /\ Log(uidx, "stop", ok, FALSE)
         /\ recording' = IF stopped THEN recording \ {uidx} ELSE recording
         /\ IF ok
            THEN /\ spc' = "reencode"
                 /\ UNCHANGED uidx
            ELSE UrlEnds
    /\ UNCHANGED <<converterVars, fs, urls, video, browser, scrollLocals,
                   pageVars>>

\* ffmpeg 'end': the .mp4 exists, unlinkSync of the .webm may throw (ignored)
ReencodeEnd ==
    /\ spc = "reencode"
    /\ \E unlinkOk \in BOOLEAN :
         /\ Log(uidx, "reencode", TRUE, ~unlinkOk)
         /\ fs' = IF unlinkOk
                  THEN (fs \cup {VideoFilepath(uidx)}) \ {TempWebmPath(uidx)}
                  ELSE fs \cup {VideoFilepath(uidx)}
    /\ UrlEnds
    /\ UNCHANGED <<converterVars, urls, video, browser, recording,
                   scrollLocals, pageVars>>

\* ffmpeg 'error' rethrown past the catch block of the loop body
ReencodeErrorAborts ==
    /\ spc = "reencode"
    /\ Log(uidx, "reencode", FALSE, FALSE)
    /\ spc' = "close"
    /\ uidx' = uidx + 1
    /\ UNCHANGED <<converterVars, fs, urls, video, browser, recording,
                   scrollLocals, pageVars>>

\* ffmpeg 'error': the .webm is kept, recordVideo rejects, the catch block
ReencodeError ==
    /\ spc = "reencode"
    /\ Log(uidx, "reencode", FALSE, FALSE)
    /\ UrlEnds
    /\ UNCHANGED <<converterVars, fs, urls, video, browser, recording,
                   scrollLocals, pageVars>>

\* a setup call rejected: takeScreenshots rejects after the finally block
SetupFailed == \E i \in DOMAIN events : events[i].url = 0 /\ ~events[i].ok

\* the finally block: browser.close()
Close ==
    /\ spc = "close"
    /\ Log(0, "close", TRUE, FALSE)
    /\ browser' = "closed"
    /\ spc' = IF SetupFailed THEN "rejected" ELSE "done"
    /\ UNCHANGED <<converterVars, fs, urls, video, uidx, recording,
                   scrollLocals, pageVars>>

ShotNext ==
    \/ Launch
    \/ PageSetup
    \/ PageSetupThrows
    \/ Goto
    \/ Screenshot
    \/ ScreenshotFails
    \/ ScrollTo
    \/ Screencast
    \/ ScrollCheck
    \/ ScrollBy
    \/ ScrollSleep(0)
    \/ ScrollReturn
    \/ ScrollThrows
    \/ Stop
    \/ ReencodeEnd
    \/ ReencodeError
    \/ Close

ShotSpec == ShotInit /\ [][ShotNext]_vars

(***************************************************************************)
(* scrollPage alone, on a page of constant height, for short durations     *)
(* and timers that may fire late.                                          *)
(***************************************************************************)
Durations == {0, 1, 12, 25, 40}

ScrollInit ==
    /\ tool = "shot"
    /\ argsKind = "other"
    /\ pc = "idle"
    /\ argRead = TRUE
    /\ inputFiles = <<>>
    /\ outputDir = ShotOutputDir
    /\ keepOriginal = FALSE
    /\ quality = 0
    /\ retentionFlag = "none"
    /\ qualityArg = <<>>
    /\ exitCode = NoExit
    /\ exitReason = "none"
    /\ fs = {}
    /\ idx = 1
    /\ active = {}
    /\ outcomes = <<>>
    /\ spc = "scrollLoop"
    /\ urls = <<>>
    /\ video = TRUE
    /\ browser = "open"
    /\ uidx = 0
    /\ events = <<>>
    /\ recording = {}
    /\ elapsed = 0
    /\ iterations = 0
    /\ \E h \in 0..MaxScroll :
         /\ scrollHeight = ClientHeight + h
         /\ scrollTop \in 0..h
    /\ durationMs \in Durations

ScrollNext ==
    \/ ScrollCheck
    \/ ScrollBy
    \/ \E late \in 0..MaxSlack : ScrollSleep(late)
    \/ ScrollReturn
    \/ ScrollThrows

ScrollSpec == ScrollInit /\ [][ScrollNext]_vars

(***************************************************************************)
(* Properties.                                                             *)
(***************************************************************************)
Handled == { outcomes[k] : k \in DOMAIN outcomes }

\* the extension of a path as the file system sees it, lower-cased
LowerExt(path) == toLowerCase(extname(path))

\* <basename-without-extension> of a path
Stem(path) == basename(path, extname(path))

\* C1 (as stated): a source file is deleted if and only if its outcome is
\* Converted and keepOriginal is false.
C1_DeletedIffConvertedAndNotKept ==
    \A o \in Handled : o.deleted <=> (o.kind = "Converted" /\ ~keepOriginal)

\* C1 (amended): a source file is deleted only if its outcome is Converted
\* and keepOriginal is false; for every Converted item with keepOriginal
\* false the deletion is attempted, except in the WebP converter for a source
\* whose extension is .webp; a source is gone from disk after its handling
\* exactly when its deletion succeeded.
C1_DeletionOnlyAfterConverted ==
    /\ \A o \in Handled :
         /\ o.deleted => (o.kind = "Converted" /\ ~keepOriginal /\ o.unlinkTried)
         /\ o.unlinkTried => (o.kind = "Converted" /\ ~keepOriginal)
         /\ (o.kind = "Converted" /\ ~keepOriginal)
              => (o.unlinkTried <=> ~(tool = "webp" /\ LowerExt(o.path) = ExtWebp))
    /\ Len(outcomes) > 0 =>
         LET last == outcomes[Len(outcomes)]
         IN  /\ last.deleted => last.path \notin fs
             /\ (last.existed /\ ~last.deleted) => last.path \in fs

C1_Witness ==
    /\ ~keepOriginal
    /\ \E o \in Handled : o.deleted
    /\ \E o \in Handled : o.kind = "Failed" /\ ~o.deleted

\* C2: every candidate the loop has reached has exactly one outcome (or its
\* conversion is still pending), the k-th outcome is that of the k-th
\* candidate, and a finished batch has as many outcomes as candidates.
C2_OneOutcomePerCandidate ==
    /\ Len(outcomes) + Cardinality(active) = idx - 1
    /\ \A k \in DOMAIN outcomes :
         /\ outcomes[k].path = inputFiles[k]
         /\ outcomes[k].kind \in {"Skipped", "Converted", "Failed"}
    /\ exitReason = "completed" => Len(outcomes) = Len(inputFiles)

C2_Witness ==
    /\ exitReason = "completed"
    /\ Len(inputFiles) = 2
    /\ inputFiles[1] = inputFiles[2]
    /\ outcomes[1].kind = "Converted"
    /\ Len(outcomes) = 2

\* C3: once a conversion has failed the process never exits with a non-zero
\* status: it stays in the loop until it exits, and when it has exited every
\* candidate of the list has its outcome and the status is 0.
C3_FailureDoesNotAbort ==
    (\E o \in Handled : o.kind = "Failed") =>
        /\ exitCode \in {NoExit, 0}
        /\ pc \in {"loop", "exited"}
        /\ pc = "exited" => /\ exitCode = 0
                            /\ Len(outcomes) = Len(inputFiles)

C3_Witness ==
    /\ pc = "exited"
    /\ exitCode = 0
    /\ Len(outcomes) = 2
    /\ outcomes[1].kind = "Failed"
    /\ outcomes[2].kind = "Converted"

\* C4: the converter is invoked for a candidate exactly when the file exists
\* when the candidate is reached and its lower-cased extension is in the
\* tool's list; any other candidate is Skipped, with no output path and no
\* unlink, and the batch still completes.
C4_ConvertedIffEligible ==
    /\ \A o \in Handled :
         /\ (o.kind \in {"Converted", "Failed"})
              <=> (o.existed /\ LowerExt(o.path) \in AllowedExt(tool))
         /\ o.kind = "Skipped" =>
              (o.outputPath = NoPath /\ ~o.unlinkTried /\ ~o.deleted)
    /\ \A job \in active :
         /\ job.inputPath \in fs
         /\ LowerExt(job.inputPath) \in AllowedExt(tool)
    /\ (pc = "exited" /\ \E o \in Handled : o.kind = "Skipped")
         => (exitCode = 0 /\ Len(outcomes) = Len(inputFiles))

C4_Witness ==
    /\ pc = "exited"
    /\ \E o \in Handled : o.kind = "Skipped" /\ o.existed
    /\ \E o \in Handled : /\ o.kind = "Converted"
                          /\ extname(o.path) # LowerExt(o.path)

\* C5: with no output directory, a source whose extension equals the target
\* extension case-insensitively gets the output path
\* <dir>/<basename-without-extension>-optimized.<targetExt>, which differs
\* from the source path (WebM and WebP converters).
C5_SameFormatGetsSuffix ==
    \A o \in Handled :
        (/\ tool \in {"webm", "webp"}
         /\ o.kind # "Skipped"
         /\ ~Truthy(outputDir)
         /\ LowerExt(o.path) = TargetExt(tool))
        => /\ o.outputPath = DirPrefix(o.path) \o Stem(o.path)
                               \o OptimizedSuffix \o TargetExt(tool)
           /\ o.outputPath # o.path

\* C6: with an output directory, the output path of every eligible source is
\* join(outputDir, <basename-without-extension> + targetExt).
C6_OutputDirPath ==
    \A o \in Handled :
        (o.kind # "Skipped" /\ Truthy(outputDir))
        => o.outputPath = join(outputDir, Stem(o.path) \o TargetExt(tool))

\* C7: with no output directory and a source extension other than the target
\* extension, the output path is the source path with only its final
\* extension replaced by the target extension.
C7_ExtensionReplacedInPlace ==
    \A o \in Handled :
        (/\ o.kind # "Skipped"
         /\ ~Truthy(outputDir)
         /\ LowerExt(o.path) # TargetExt(tool))
        => o.outputPath = DirPrefix(o.path) \o Stem(o.path) \o TargetExt(tool)

\* C8: at most one conversion is pending; while the conversion of item i is
\* pending every earlier item has its outcome (deletion included), no later
\* item has been reached, and outcomes are recorded in input order.
C8_JobsSequential ==
    /\ Cardinality(active) <= 1
    /\ \A job \in active :
         /\ Len(outcomes) = job.index - 1
         /\ idx = job.index + 1
    /\ \A k \in DOMAIN outcomes : outcomes[k].index = k

C8_Witness ==
    /\ \E job \in active : job.index = 2
    /\ Len(outcomes) = 1
    /\ outcomes[1].deleted

\* C9 (as stated): whenever the resolved input set is empty, an invocation
\* with no arguments included, the tool exits non-zero without running a job.
C9_EmptyInputIsFatal ==
    (pc = "exited" /\ Len(inputFiles) = 0 /\ argsKind # "help")
        => (exitCode # 0 /\ outcomes = <<>>)

\* C9 (amended): when the input set is empty after a non-empty argument list
\* without help flag has been processed the tool exits with status 1 and no
\* job has run; an invocation with no arguments prints the usage and exits
\* with status 0, no job run either; the loop is never entered with an empty
\* input set.
C9_EmptyInputFatalUnlessNoArgs ==
    /\ (pc = "exited" /\ Len(inputFiles) = 0 /\ argsKind = "other")
         => (exitCode = 1 /\ outcomes = <<>> /\ active = {})
    /\ (pc = "exited" /\ argsKind = "none")
         => (exitCode = 0 /\ outcomes = <<>> /\ active = {})
    /\ pc = "loop" => Len(inputFiles) > 0

C9_Witness ==
    /\ pc = "exited"
    /\ exitReason = "no-input"
    /\ retentionFlag = "keep"
    /\ exitCode = 1

\* a string that is a decimal integer, with an optional sign
IsNumericString(str) ==
    LET body == IF Len(str) > 0 /\ str[1] \in {"-", "+"} THEN Tail(str) ELSE str
    IN  /\ Len(body) > 0
        /\ \A k \in DOMAIN body : IsDigit(body[k])

QualityInRange(t, q) == QualityMin(t) <= q /\ q <= QualityMax(t)

\* C10: a --quality value that is non-numeric or outside the tool's range
\* makes the process exit non-zero with no conversion and no deletion;
\* every job that runs uses a quality within the tool's range.
C10_BadQualityIsFatal ==
    /\ (/\ qualityArg # <<>>
        /\ \/ ~IsNumericString(qualityArg[1])
           \/ ~QualityInRange(tool, parseInt(qualityArg[1]).val))
         => /\ pc = "exited"
            /\ exitCode # 0
            /\ outcomes = <<>>
            /\ active = {}
    /\ \A job \in active : QualityInRange(tool, job.quality)
    /\ \A o \in Handled : QualityInRange(tool, o.quality)

\* C13 (as stated): retention is the tool default (MP4 deletes, WebM and WebP
\* keep) unless a retention flag was given; otherwise the last of --keep and
\* --remove decides, in every converter.
C13_LastRetentionFlagDecides ==
    keepOriginal = CASE retentionFlag = "none"   -> (tool # "mp4")
                     [] retentionFlag = "keep"   -> TRUE
                     [] retentionFlag = "remove" -> FALSE

\* C13 (amended): without a retention flag MP4 deletes and WebM and WebP
\* keep; --keep forces retention in every converter; --remove forces
\* deletion in the WebM and WebP converters, where the last of the two flags
\* decides; in the MP4 converter --remove is no option and changes nothing.
C13_RetentionFlags ==
    /\ [](/\ retentionFlag = "none" => (keepOriginal <=> tool # "mp4")
          /\ retentionFlag = "keep" => keepOriginal
          /\ (retentionFlag = "remove" /\ tool # "mp4") => ~keepOriginal
          /\ \A o \in Handled : o.unlinkTried => retentionFlag # "keep")
    /\ [][(tool = "mp4" /\ retentionFlag' = "remove")
            => keepOriginal' = keepOriginal]_vars

C13_Witness ==
    /\ tool = "webm"
    /\ retentionFlag = "remove"
    /\ exitReason = "completed"
    /\ \E o \in Handled : o.deleted

\* C14: when the unlink of a converted source fails the item keeps its one
\* outcome Converted, the source is still on disk, and the batch goes on to
\* its end with status 0.
C14_UnlinkFailureIsOnlyLogged ==
    /\ \A o \in Handled : (o.unlinkTried /\ ~o.deleted) => o.kind = "Converted"
    /\ \A j, k \in DOMAIN outcomes :
         outcomes[j].index = outcomes[k].index => j = k
    /\ Len(outcomes) > 0 =>
         LET last == outcomes[Len(outcomes)]
         IN  (last.unlinkTried /\ ~last.deleted) => last.path \in fs
    /\ (\E o \in Handled : o.unlinkTried /\ ~o.deleted) =>
         /\ exitCode \in {NoExit, 0}
         /\ pc = "exited" => Len(outcomes) = Len(inputFiles)

C14_Witness ==
    /\ pc = "exited"
    /\ exitCode = 0
    /\ Len(outcomes) = 2
    /\ outcomes[1].kind = "Converted"
    /\ outcomes[1].unlinkTried
    /\ ~outcomes[1].deleted
    /\ outcomes[2].kind = "Converted"

\* the events of the browser itself and of the k-th URL
EventsAt(step) == {i \in DOMAIN events : events[i].step = step}
UrlEvents(k) ==
    LET OfUrl(e) == e.url = k
    IN  SelectSeq(events, OfUrl)
Launched == \E i \in EventsAt("launch") : events[i].ok

\* C11: the browser is launched at most once and, once launched, closed
\* exactly once on every exit path of takeScreenshots (all URLs processed,
\* URLs failed, page setup thrown before any URL); nothing is processed
\* after the close.
C11_BrowserClosedOnce ==
    /\ Cardinality(EventsAt("launch")) <= 1
    /\ Cardinality(EventsAt("close")) <= 1
    /\ EventsAt("close") # {} => Launched
    /\ \A i \in EventsAt("close") : i = Len(events)
    /\ (spc \in {"done", "rejected"} /\ Launched) =>
         /\ Cardinality(EventsAt("close")) = 1
         /\ browser = "closed"
    /\ browser = "closed" => spc \in {"done", "rejected"}

C11_Witness ==
    /\ spc = "rejected"
    /\ Launched
    /\ \E i \in EventsAt("setViewport") : ~events[i].ok
    /\ \A i \in DOMAIN events : events[i].url = 0
    /\ Cardinality(EventsAt("close")) = 1

\* every URL of the list was navigated to (or tried)
AllUrlsVisited ==
    \A k \in 1..Len(urls) :
        \E i \in EventsAt("goto") : events[i].url = k

\* C12 (as stated): after the re-encode the intermediate .webm is deleted on
\* success and kept on failure; in any case every remaining URL is processed.
C12_WebmDeletedIffReencoded ==
    /\ \A i \in EventsAt("reencode") :
         events[i].ok <=> TempWebmPath(events[i].url) \notin fs
    /\ spc = "done" => AllUrlsVisited

\* C12 (amended): on re-encode success the deletion of the .webm is tried and
\* the file is gone unless unlinkSync throws, which is ignored (the .webm
\* stays, the URL has not failed); on re-encode failure the .webm is kept and
\* only that URL fails; in every case, and after navigation or screenshot
\* failures, every remaining URL is processed.
C12_WebmKeptOnFailure ==
    /\ \A i \in EventsAt("reencode") :
         LET e == events[i]
         IN  /\ (e.ok /\ ~e.unlinkFailed) => TempWebmPath(e.url) \notin fs
             /\ (e.ok /\ e.unlinkFailed) => TempWebmPath(e.url) \in fs
             /\ e.ok => VideoFilepath(e.url) \in fs
             /\ ~e.ok => TempWebmPath(e.url) \in fs
             /\ e.unlinkFailed => e.ok
    /\ spc = "done" => AllUrlsVisited
    /\ \A i \in DOMAIN events :
         (events[i].url > 0 /\ ~events[i].ok /\ events[i].url < Len(urls))
         => spc \notin {"close", "done", "rejected"}
            \/ \E j \in EventsAt("goto") : events[j].url = events[i].url + 1

C12_Witness ==
    /\ spc = "done"
    /\ Len(urls) = 2
    /\ \E i \in EventsAt("reencode") :
         /\ events[i].url = 1
         /\ ~events[i].ok
         /\ TempWebmPath(1) \in fs
    /\ \E i \in EventsAt("reencode") :
         /\ events[i].url = 2
         /\ events[i].ok
         /\ TempWebmPath(2) \notin fs

ScrollPositions == {"scrollLoop", "scrollBy", "scrollSleep"}

\* C15: an iteration scrolls by the fixed amount only if scrollTop +
\* clientHeight < scrollHeight when it checks, every iteration sleeps the
\* full interval; on a page of constant height the position never decreases
\* and never passes scrollHeight - clientHeight; the loop returns at the
\* first loop test at which the elapsed time has reached the duration.
C15_ScrollLoop ==
    /\ [](spc \in ScrollPositions =>
            /\ scrollTop <= scrollHeight - ClientHeight
            /\ elapsed >= iterations * SCROLL_INTERVAL_MS
            /\ iterations > 0 =>
                 (iterations - 1) * SCROLL_INTERVAL_MS < durationMs)
    /\ [][/\ scrollTop' >= scrollTop
          /\ scrollTop' # scrollTop =>
               /\ spc = "scrollBy"
               /\ scrollTop' = scrollTop + SCROLL_AMOUNT
          /\ (spc = "scrollLoop" /\ spc' = "scrollBy") => CanScroll
          /\ (spc = "scrollLoop" /\ spc' = "scrollSleep") => ~CanScroll
          /\ spc = "scrollSleep" =>
               /\ elapsed' >= elapsed + SCROLL_INTERVAL_MS
               /\ iterations' = iterations + 1
          /\ (spc = "scrollLoop" /\ elapsed >= durationMs) => spc' = "returned"
          /\ spc' = "returned" => (spc = "scrollLoop" /\ elapsed >= durationMs)
       ]_vars

C15_Witness ==
    /\ spc = "scrollLoop"
    /\ elapsed >= durationMs
    /\ iterations >= 3
    /\ scrollHeight > ClientHeight
    /\ scrollTop = scrollHeight - ClientHeight

CaptureOrder ==
    <<"goto", "screenshot", "scrollTo", "screencast", "scroll", "stop",
      "reencode">>

\* the URL has reached its end: an awaited call failed or the last one is done
UrlAtEnd(k) ==
    LET steps == UrlEvents(k)
    IN  /\ Len(steps) > 0
        /\ \/ ~steps[Len(steps)].ok
           \/ Len(steps) = (IF video THEN Len(CaptureOrder) ELSE 2)

\* C16: the capture steps of a URL occur in the order navigate, still
\* capture, then (video requested only) scroll reset, start recording,
\* scroll loop, stop recording, re-encode; no step follows a failed one, so
\* no recording starts after a failed navigation or capture or without
\* video; URL k+1 begins only after URL k has reached its end.
C16_StepsInOrder ==
    /\ \A k \in 1..Len(urls) :
         LET steps == UrlEvents(k)
         IN  /\ Len(steps) <= (IF video THEN Len(CaptureOrder) ELSE 2)
             /\ \A i \in DOMAIN steps :
                  /\ steps[i].step = CaptureOrder[i]
                  /\ i < Len(steps) => steps[i].ok
    /\ \A i \in DOMAIN events :
         (i < Len(events) /\ events[i].url > 0)
         => events[i].url <= events[i + 1].url \/ events[i + 1].url = 0
    /\ \A k \in 1..Len(urls) :
         (k > 1 /\ Len(UrlEvents(k)) > 0) => UrlAtEnd(k - 1)
    /\ \A k \in recording :
         LET steps == UrlEvents(k)
         IN  /\ video
             /\ Len(steps) >= 4
             /\ steps[1].ok /\ steps[2].ok

C16_Witness ==
    /\ spc = "done"
    /\ video
    /\ Len(urls) = 2
    /\ Len(UrlEvents(1)) = 2
    /\ ~UrlEvents(1)[2].ok
    /\ Len(UrlEvents(2)) = Len(CaptureOrder)
    /\ UrlEvents(2)[Len(CaptureOrder)].ok

\* C17: every recording that was started is stopped before the next URL is
\* navigated to and before the browser is closed, also when the scroll loop
\* throws.
C17_RecordingStoppedBeforeNext ==
    spc \in {"goto", "close", "done", "rejected"} => recording = {}

\* C18: within one batch no job's output path equals its own source path,
\* the output path of a job with a different source path, or the source path
\* of another job.
C18_OutputPathsDistinct ==
    \A j, k \in DOMAIN outcomes :
        (outcomes[j].kind # "Skipped" /\ outcomes[k].kind # "Skipped")
        => /\ outcomes[j].outputPath # outcomes[k].path
           /\ outcomes[j].path # outcomes[k].path
                => outcomes[j].outputPath # outcomes[k].outputPath

====
